---- MODULE Spec2Model ----
(***************************************************************************)
(* A model of lbldb (src/lbldb.py): tables stored as CSV text, the         *)
(* rewrite-based Update/Delete, the nested-loop Query and external_sort.   *)
(* Storage is modelled at the character level: a file is a sequence of     *)
(* one-character strings, written by the csv writer and read back by the   *)
(* csv reader state machine, so that a round trip is a checked fact.       *)
(***************************************************************************)
EXTENDS Integers, Sequences, FiniteSets, TLC

(* ------------------------------------------------------------------ *)
(* Characters                                                          *)
(* ------------------------------------------------------------------ *)
COMMA == ","
DQ == "\""
CR == "\r"
LF == "\n"
EOL == "EOL"

\* Python's None, as a value that is no character string of the alphabet
None == <<"NONE">>
\* csv.DictReader's restkey (None): the key under which surplus fields go
RestKey == <<"NONE">>

Range(s) == {s[i] : i \in 1..Len(s)}

(* ------------------------------------------------------------------ *)
(* csv writer (excel dialect, QUOTE_MINIMAL, lineterminator "\r\n")    *)
(* ------------------------------------------------------------------ *)
NeedsQuote(f) == \E i \in 1..Len(f) : f[i] \in {COMMA, DQ, CR, LF}

RECURSIVE DoubleQuotes(_)
DoubleQuotes(f) ==
    IF f = <<>> THEN <<>>
    ELSE (IF Head(f) = DQ THEN <<DQ, DQ>> ELSE <<Head(f)>>) \o DoubleQuotes(Tail(f))

\* a field as the writer emits it; None is written as the empty string
WriteField(f) ==
    LET g == IF f = None THEN <<>> ELSE f
    IN IF NeedsQuote(g) THEN <<DQ>> \o DoubleQuotes(g) \o <<DQ>> ELSE g

RECURSIVE JoinFields(_)
JoinFields(fs) ==
    IF fs = <<>> THEN <<>>
    ELSE IF Len(fs) = 1 THEN WriteField(fs[1])
    ELSE WriteField(Head(fs)) \o <<COMMA>> \o JoinFields(Tail(fs))

\* csv.writer.writerow: a record of one empty field is written as ""
WriterRow(fs) ==
    LET Line(joined) ==
            (IF Len(fs) > 0 /\ joined = <<>> THEN <<DQ, DQ>> ELSE joined) \o <<CR, LF>>
    IN Line(JoinFields(fs))

\* csv.DictWriter.writerow with extrasaction="raise", restval="":
\* [ok |-> FALSE] stands for the ValueError on a key outside fieldnames
DictWriterRow(fieldnames, d) ==
    IF DOMAIN d \subseteq Range(fieldnames)
    THEN [ok |-> TRUE,
          text |-> WriterRow([i \in 1..Len(fieldnames) |->
                        IF fieldnames[i] \in DOMAIN d THEN d[fieldnames[i]] ELSE <<>>])]
    ELSE [ok |-> FALSE, text |-> <<>>]

WriteHeader(fieldnames) == WriterRow(fieldnames)

(* ------------------------------------------------------------------ *)
(* csv reader: the state machine of _csv.c over the lines of a file    *)
(* opened with newline="" (lines end at "\r\n", "\r" or "\n")          *)
(* ------------------------------------------------------------------ *)
IsNL(c) == c \in {CR, LF}

SaveField(ps) == [ps EXCEPT !.fields = Append(@, ps.field), !.field = <<>>]

AfterNL(ps, c) == [SaveField(ps) EXCEPT !.st = IF c = EOL THEN "START_RECORD" ELSE "EAT_CRNL"]

ProcessChar(ps, c) ==
    LET st == IF ps.st = "START_RECORD" /\ c # EOL /\ ~IsNL(c)
              THEN "START_FIELD" ELSE ps.st
    IN CASE st = "START_RECORD" ->
                IF c = EOL THEN ps ELSE [ps EXCEPT !.st = "EAT_CRNL"]
         [] st = "START_FIELD" ->
                IF c = EOL \/ IsNL(c) THEN AfterNL(ps, c)
                ELSE IF c = DQ THEN [ps EXCEPT !.st = "IN_QUOTED_FIELD"]
                ELSE IF c = COMMA THEN [SaveField(ps) EXCEPT !.st = "START_FIELD"]
                ELSE [ps EXCEPT !.field = Append(@, c), !.st = "IN_FIELD"]
         [] st = "IN_FIELD" ->
                IF c = EOL \/ IsNL(c) THEN AfterNL(ps, c)
                ELSE IF c = COMMA THEN [SaveField(ps) EXCEPT !.st = "START_FIELD"]
                ELSE [ps EXCEPT !.field = Append(@, c)]
         [] st = "IN_QUOTED_FIELD" ->
                IF c = EOL THEN ps
                ELSE IF c = DQ THEN [ps EXCEPT !.st = "QUOTE_IN_QUOTED_FIELD"]
                ELSE [ps EXCEPT !.field = Append(@, c)]
         [] st = "QUOTE_IN_QUOTED_FIELD" ->
                IF c = DQ THEN [ps EXCEPT !.field = Append(@, c), !.st = "IN_QUOTED_FIELD"]
                ELSE IF c = COMMA THEN [SaveField(ps) EXCEPT !.st = "START_FIELD"]
                ELSE IF c = EOL \/ IsNL(c) THEN AfterNL(ps, c)
                ELSE [ps EXCEPT !.field = Append(@, c), !.st = "IN_FIELD"]
         [] st = "EAT_CRNL" ->
                IF c = EOL THEN [ps EXCEPT !.st = "START_RECORD"]
                ELSE IF IsNL(c) THEN ps
                ELSE [ps EXCEPT !.st = "ERROR"]
         [] OTHER -> ps

\* the character at i is the last one of a physical line
EndsLine(s, i) ==
    \/ s[i] = LF
    \/ s[i] = CR /\ (i = Len(s) \/ s[i + 1] # LF)
    \/ i = Len(s)

\* at the end of a line the reader returns the record when it is complete
EndLine(ps) ==
    IF ps.st = "START_RECORD"
    THEN [ps EXCEPT !.recs = Append(@, ps.fields), !.fields = <<>>, !.field = <<>>]
    ELSE ps

RECURSIVE ParseFrom(_, _, _)
ParseFrom(s, i, ps) ==
    IF i > Len(s) THEN ps
    ELSE LET AtEnd(p1) == IF EndsLine(s, i) THEN EndLine(ProcessChar(p1, EOL)) ELSE p1
             Rest(p2) == IF p2.st = "ERROR" THEN p2 ELSE ParseFrom(s, i + 1, p2)
         IN Rest(AtEnd(ProcessChar(ps, s[i])))

\* csv.reader over a whole file: the list of records (lists of fields)
CsvReader(s) ==
    LET AtEof(ps) == IF ps.st = "IN_QUOTED_FIELD" \/ ps.field # <<>>
                     THEN Append(ps.recs, Append(ps.fields, ps.field))
                     ELSE ps.recs
    IN AtEof(ParseFrom(s, 1, [st |-> "START_RECORD", field |-> <<>>,
                              fields |-> <<>>, recs |-> <<>>]))

\* the dict csv.DictReader builds from the header and one row
RowDict(header, row) ==
    LET lf == Len(header)
        lr == Len(row)
        keys == Range(header) \cup (IF lf < lr THEN {RestKey} ELSE {})
        last(n) == CHOOSE i \in 1..lf : header[i] = n /\ \A j \in (i + 1)..lf : header[j] # n
    IN [n \in keys |->
          IF n \notin Range(header) THEN SubSeq(row, lf + 1, lr)
          ELSE IF last(n) <= lr THEN row[last(n)] ELSE None]

\* csv.DictReader.fieldnames: the first record of the file
ReaderFieldnames(s) ==
    LET First(recs) == IF recs = <<>> THEN <<>> ELSE recs[1]
    IN First(CsvReader(s))

\* csv.DictReader over a whole file: the header is the first record, blank
\* rows are skipped
DictReader(s) ==
    LET Rows(header, body) == [i \in 1..Len(body) |-> RowDict(header, body[i])]
        Dicts(recs) ==
            IF recs = <<>> THEN <<>>
            ELSE Rows(recs[1], SelectSeq(Tail(recs), LAMBDA r : r # <<>>))
    IN Dicts(CsvReader(s))

(* ------------------------------------------------------------------ *)
(* text-mode reading of a file opened without newline="" (the scratch  *)
(* file of Update/Delete): universal newlines, "\r\n" and "\r" -> "\n" *)
(* ------------------------------------------------------------------ *)
RECURSIVE TranslateNewlines(_)
TranslateNewlines(s) ==
    IF s = <<>> THEN <<>>
    ELSE IF Head(s) = CR
         THEN <<LF>> \o TranslateNewlines(
                  IF Len(s) >= 2 /\ s[2] = LF THEN Tail(Tail(s)) ELSE Tail(s))
         ELSE <<Head(s)>> \o TranslateNewlines(Tail(s))

(* ------------------------------------------------------------------ *)
(* Values, coercion and ordering                                       *)
(* ------------------------------------------------------------------ *)
Digits == {"0", "1", "2", "3", "4", "5", "6", "7", "8", "9"}

DigitVal(c) ==
    CASE c = "0" -> 0 [] c = "1" -> 1 [] c = "2" -> 2 [] c = "3" -> 3 [] c = "4" -> 4
      [] c = "5" -> 5 [] c = "6" -> 6 [] c = "7" -> 7 [] c = "8" -> 8 [] OTHER -> 9

\* code points of the characters that occur in the model
CharCode(c) ==
    CASE c = LF -> 10 [] c = CR -> 13 [] c = DQ -> 34 [] c = COMMA -> 44
      [] c \in Digits -> 48 + DigitVal(c)
      [] c = "N" -> 78 [] c = "a" -> 97 [] c = "b" -> 98 [] c = "e" -> 101
      [] c = "k" -> 107 [] c = "n" -> 110 [] c = "o" -> 111 [] c = "v" -> 118
      [] c = "w" -> 119 [] OTHER -> 122

\* str < str: lexicographic by code point
RECURSIVE StrLess(_, _)
StrLess(s, t) ==
    IF t = <<>> THEN FALSE
    ELSE IF s = <<>> THEN TRUE
    ELSE IF Head(s) = Head(t) THEN StrLess(Tail(s), Tail(t))
    ELSE CharCode(Head(s)) < CharCode(Head(t))

\* str.strip() on the whitespace of the alphabet
RECURSIVE LStrip(_)
LStrip(s) == IF s # <<>> /\ IsNL(Head(s)) THEN LStrip(Tail(s)) ELSE s

RECURSIVE RStrip(_)
RStrip(s) == IF s # <<>> /\ IsNL(s[Len(s)]) THEN RStrip(SubSeq(s, 1, Len(s) - 1)) ELSE s

RECURSIVE Decimal(_)
Decimal(s) == IF s = <<>> THEN 0 ELSE 10 * Decimal(SubSeq(s, 1, Len(s) - 1)) + DigitVal(s[Len(s)])

\* int(v): surrounding whitespace is ignored; ok = FALSE is the ValueError
\* (TypeError for None)
IntOf(v) ==
    LET Parse(t) == IF v # None /\ t # <<>> /\ \A i \in 1..Len(t) : t[i] \in Digits
                    THEN [ok |-> TRUE, val |-> Decimal(t)]
                    ELSE [ok |-> FALSE, val |-> 0]
    IN Parse(RStrip(LStrip(v)))

\* str(v)
StrOf(v) == IF v = None THEN <<"N", "o", "n", "e">> ELSE v

DigitChar(i) ==
    CASE i = 0 -> "0" [] i = 1 -> "1" [] i = 2 -> "2" [] i = 3 -> "3" [] i = 4 -> "4"
      [] i = 5 -> "5" [] i = 6 -> "6" [] i = 7 -> "7" [] i = 8 -> "8" [] OTHER -> "9"

\* str(n) of a natural number
RECURSIVE StrOfNat(_)
StrOfNat(n) ==
    IF n < 10 THEN <<DigitChar(n)>> ELSE StrOfNat(n \div 10) \o <<DigitChar(n % 10)>>

(* ------------------------------------------------------------------ *)
(* Column and Filter                                                   *)
(* ------------------------------------------------------------------ *)
Col(dbid, name) == [dbid |-> dbid, name |-> name]

\* Column.__call__: row[dbid][name]; ok = FALSE is the KeyError
ColumnCall(c, row) ==
    IF c.dbid \in DOMAIN row /\ c.name \in DOMAIN row[c.dbid]
    THEN [ok |-> TRUE, val |-> row[c.dbid][c.name]]
    ELSE [ok |-> FALSE, val |-> <<>>]

IntLit(n) == [k |-> "int", dbid |-> "", name |-> <<>>, n |-> n, s |-> <<>>]
StrLit(s) == [k |-> "str", dbid |-> "", name |-> <<>>, n |-> 0, s |-> s]
ColRef(c) == [k |-> "col", dbid |-> c.dbid, name |-> c.name, n |-> 0, s |-> <<>>]

Cmp(op, c, other) == [t |-> "cmp", op |-> op, col |-> c, other |-> other]
And(l, r) == [t |-> "and", l |-> l, r |-> r]
Or(l, r) == [t |-> "or", l |-> l, r |-> r]
Not(f) == [t |-> "not", f |-> f]

Bool3(b) == IF b THEN "T" ELSE "F"

CmpInt(op, a, b) ==
    CASE op = "eq" -> a = b [] op = "ne" -> a # b [] op = "lt" -> a < b
      [] op = "le" -> a <= b [] op = "gt" -> a > b [] OTHER -> a >= b

CmpStr(op, a, b) ==
    CASE op = "eq" -> a = b [] op = "ne" -> a # b [] op = "lt" -> StrLess(a, b)
      [] op = "le" -> ~StrLess(b, a) [] op = "gt" -> StrLess(b, a) [] OTHER -> ~StrLess(a, b)

\* comparison operators that take a failed conversion for "no match"
EvalCmpSilent(f, row) ==
    LET WithColumn(x, y) ==
            IF ~y.ok THEN "E"
            ELSE Bool3(IF f.op = "eq" THEN x.val = y.val ELSE x.val # y.val)
        WithInt(i) == IF ~i.ok THEN "F" ELSE Bool3(CmpInt(f.op, i.val, f.other.n))
        Compare(x) ==
            IF ~x.ok THEN "E"
            ELSE IF f.other.k = "col"
            THEN IF f.op \in {"eq", "ne"}
                 THEN WithColumn(x, ColumnCall(Col(f.other.dbid, f.other.name), row))
                 ELSE "E"
            ELSE IF f.other.k = "int" THEN WithInt(IntOf(x.val))
            ELSE Bool3(CmpStr(f.op, StrOf(x.val), f.other.s))
    IN Compare(ColumnCall(f.col, row))

\* the six comparison operators of Column; "E" is a raised exception
EvalCmp(f, row) ==
    LET WithColumn(x, y) ==
            IF ~y.ok THEN "E"
            ELSE Bool3(IF f.op = "eq" THEN x.val = y.val ELSE x.val # y.val)
        WithInt(i) == IF ~i.ok THEN "E" ELSE Bool3(CmpInt(f.op, i.val, f.other.n))
        Compare(x) ==
            IF ~x.ok THEN "E"
            ELSE IF f.other.k = "col"
            THEN IF f.op \in {"eq", "ne"}
                 THEN WithColumn(x, ColumnCall(Col(f.other.dbid, f.other.name), row))
                 ELSE "E"  \* type(other)(...) is Column(value): TypeError
            ELSE IF f.other.k = "int" THEN WithInt(IntOf(x.val))
            ELSE Bool3(CmpStr(f.op, StrOf(x.val), f.other.s))
    IN Compare(ColumnCall(f.col, row))

\* a predicate built with &, | and ~ that evaluates both of its operands
RECURSIVE EvalEager(_, _)
EvalEager(f, row) ==
    CASE f.t = "cmp" -> EvalCmp(f, row)
      [] f.t = "and" -> LET AndBoth(l, r) == IF l = "E" \/ r = "E" THEN "E"
                                             ELSE Bool3(l = "T" /\ r = "T")
                        IN AndBoth(EvalEager(f.l, row), EvalEager(f.r, row))
      [] f.t = "or" -> LET OrBoth(l, r) == IF l = "E" \/ r = "E" THEN "E"
                                           ELSE Bool3(l = "T" \/ r = "T")
                       IN OrBoth(EvalEager(f.l, row), EvalEager(f.r, row))
      [] OTHER -> LET Negate(v) == IF v = "E" THEN "E" ELSE IF v = "T" THEN "F" ELSE "T"
                  IN Negate(EvalEager(f.f, row))

\* Filter.__call__ on a predicate built with &, | and ~ (Python's and / or
\* evaluate the right operand only when the left does not decide)
RECURSIVE Eval(_, _)
Eval(f, row) ==
    CASE f.t = "cmp" -> EvalCmp(f, row)
      [] f.t = "and" -> LET AndRight(l) == IF l = "T" THEN Eval(f.r, row) ELSE l
                        IN AndRight(Eval(f.l, row))
      [] f.t = "or" -> LET OrRight(l) == IF l = "F" THEN Eval(f.r, row) ELSE l
                       IN OrRight(Eval(f.l, row))
      [] OTHER -> LET Negate(v) == IF v = "E" THEN "E" ELSE IF v = "T" THEN "F" ELSE "T"
                  IN Negate(Eval(f.f, row))

\* all(f(row) for f in filters): in order, stopping at the first false
RECURSIVE AllFilters(_, _)
AllFilters(fs, row) ==
    IF fs = <<>> THEN "T"
    ELSE LET Others(v) == IF v = "T" THEN AllFilters(Tail(fs), row) ELSE v
         IN Others(Eval(Head(fs), row))

(* ------------------------------------------------------------------ *)
(* Bounds and inputs                                                   *)
(* ------------------------------------------------------------------ *)
\* most records a table holds
MaxRows == 2
\* characters shutil.copyfileobj moves per read/write (scaled down)
CopyBufSize == 16

K == <<"k">>
V == <<"v">>
W == <<"w">>

\* the tables (Database objects); the handle stands for str(id(db))
DbIds == {"A", "B"}

\* Database.fieldnames, fixed at construction
Fieldnames(db) == IF db = "A" THEN <<K, V>> ELSE <<K, W>>

\* field values appended to the table of the mutations: a plain one, and one
\* that needs quoting and escaping and holds a carriage return
KeyValues == {<<"1">>, <<"a">>}
FieldValues == {<<"a">>, <<DQ, CR>>}
AppendRecords == {[n \in {K, V} |-> IF n = K THEN k ELSE v] : k \in KeyValues, v \in FieldValues}

\* records whose keys are not the columns of the table: one lacks v, one has
\* the extra key w
MismatchRecords ==
    { [n \in {K} |-> <<"1">>],
      [n \in {K, V, W} |-> IF n = K THEN <<"1">> ELSE <<"a">>] }

\* files the mutated table starts from: created by Database(path, fieldnames),
\* or an existing one opened by Database(path), whose last row has no
\* terminator
InitialFiles ==
    { WriteHeader(<<K, V>>),
      <<"k", COMMA, "v", LF, "1", COMMA, "a">> }

\* the filter lists of the mutations
MutationFilters ==
    << <<>>,
       <<Cmp("eq", Col("A", K), IntLit(1))>>,
       <<Cmp("eq", Col("A", K), StrLit(<<"1">>)), Cmp("eq", Col("A", V), StrLit(<<"a">>))>>,
       <<And(Cmp("eq", Col("A", K), StrLit(<<"1">>)), Cmp("eq", Col("A", K), IntLit(1)))>>,
       <<Or(Cmp("eq", Col("A", K), StrLit(<<"a">>)), Cmp("eq", Col("A", K), IntLit(1)))>>,
       <<Cmp("lt", Col("A", K), ColRef(Col("A", V)))>> >>

\* the assignments of Update.set
Assignments == << [column |-> Col("A", V), value |-> <<"w">>] >>

NoOp == [kind |-> "none", filters |-> <<>>, set_column |-> Col("A", K), set_value |-> <<>>]

MutationOps ==
    {[kind |-> "update", filters |-> MutationFilters[i],
      set_column |-> Assignments[j].column, set_value |-> Assignments[j].value] :
         i \in 1..Len(MutationFilters), j \in 1..Len(Assignments)}
    \cup
    {[kind |-> "delete", filters |-> MutationFilters[i],
      set_column |-> Col("A", K), set_value |-> <<>>] : i \in 1..Len(MutationFilters)}

(* ------------------------------------------------------------------ *)
(* State                                                               *)
(* ------------------------------------------------------------------ *)
VARIABLES
    stream,     \* db.stream of each table: the characters of the backing file
    mpc,        \* Update/Delete.execute: "idle", "scan" (the for loop), "copy",
                \* "done" (returned or raised)
    mop,        \* the Update or Delete being executed
    ridx,       \* index of the next record the scan's DictReader returns
    tmpf,       \* content of the scratch file tmpf
    tmpfOpen,   \* tmpf is open
    copied,     \* characters of tmpf that copyfileobj has written back
    pre,        \* history: the backing file when execute was called
    mres,       \* history: how the last execute ended
    base,       \* history: the backing file before the appends in applog
    applog,     \* history: the records appended since base
    app,        \* history: the last call of append: its record, how it ended
                \* and the backing file before it
    q,          \* the Query object: dbs, filters, projections, _limit
    gen,        \* the generator made by Query.__iter__
    qpc,        \* what the caller of the query is doing
    qerr,       \* the exception that ended it ("" if none)
    out,        \* the composite rows pulled by a plain iteration
    stdout,     \* the characters written to sys.stdout
    nrows,      \* rows written by the loop of execute
    grp,        \* the Groupby object: its columns
    es,         \* the generator made by external_sort
    sout        \* history: the items external_sort has yielded

qvars == <<q, gen, qpc, qerr, out, stdout, nrows, grp>>

svars == <<es, sout>>

tvars == <<stream, mpc, mop, ridx, tmpf, tmpfOpen, copied, pre, mres, base, applog, app>>

(* ------------------------------------------------------------------ *)
(* Database                                                            *)
(* ------------------------------------------------------------------ *)
\* Database.__iter__: seek(0) and a new csv.DictReader
DatabaseIter(db) == DictReader(stream[db])

NoAppend == [rec |-> <<>>, res |-> "none", before |-> <<>>]

\* Database.append: seek to the end, DictWriter.writerow; writerow raises
\* ValueError, before it writes, for a key that is no fieldname
DatabaseAppend(rec) ==
    /\ mpc = "idle"
    /\ Len(DatabaseIter("A")) < MaxRows
    /\ LET Write(w) ==
               IF w.ok
               THEN /\ stream' = [stream EXCEPT !["A"] = @ \o w.text]
                    /\ app' = [rec |-> rec, res |-> "ok", before |-> stream["A"]]
                    /\ IF rec \in AppendRecords
                       THEN applog' = Append(applog, rec) /\ UNCHANGED base
                       ELSE applog' = <<>> /\ base' = stream'["A"]
               ELSE /\ app' = [rec |-> rec, res |-> "raised", before |-> stream["A"]]
                    /\ UNCHANGED <<stream, applog, base>>
       IN Write(DictWriterRow(Fieldnames("A"), rec))
    /\ UNCHANGED <<mpc, mop, ridx, tmpf, tmpfOpen, copied, pre, mres>>
    /\ UNCHANGED <<qvars, svars>>

(* ------------------------------------------------------------------ *)
(* Update.execute and Delete.execute                                   *)
(* ------------------------------------------------------------------ *)
\* a rewrite that starts in place: the header goes to the table itself
MutationBeginInPlace(op) ==
    /\ mpc = "idle"
    /\ mpc' = "scan"
    /\ mop' = op
    /\ ridx' = 1
    /\ tmpf' = WriteHeader(Fieldnames("A"))
    /\ tmpfOpen' = TRUE
    /\ copied' = 0
    /\ pre' = stream["A"]
    /\ mres' = "none"
    /\ stream' = [stream EXCEPT !["A"] = WriteHeader(Fieldnames("A"))]
    /\ UNCHANGED <<base, applog, app>>
    /\ UNCHANGED <<qvars, svars>>

\* tempfile.TemporaryFile, writeheader, iter(self.db)
MutationBegin(op) ==
    /\ mpc = "idle"
    /\ mpc' = "scan"
    /\ mop' = op
    /\ ridx' = 1
    /\ tmpf' = WriteHeader(Fieldnames("A"))
    /\ tmpfOpen' = TRUE
    /\ copied' = 0
    /\ pre' = stream["A"]
    /\ mres' = "none"
    /\ UNCHANGED <<stream, base, applog, app>>
    /\ UNCHANGED <<qvars, svars>>

\* an exception leaves execute: nothing after the raising statement runs
Raise(how) ==
    /\ mpc' = "done"
    /\ mres' = how
    /\ UNCHANGED <<mop, ridx, tmpfOpen, copied, pre, base, applog, app>>

\* row[self.set_column.name] = self.set_value
Assign(row, name, value) ==
    [n \in DOMAIN row \cup {name} |-> IF n = name THEN value ELSE row[n]]

\* what the loop body writes for one row: skip, a row, or an exception
RowOutput(op, row) ==
    LET Written(w) == IF ~w.ok THEN [how |-> "raise", text |-> <<>>]
                      ELSE [how |-> "write", text |-> w.text]
        Body(m) ==
            IF m = "E" THEN [how |-> "raise", text |-> <<>>]
            ELSE IF m = "T" /\ op.kind = "delete" THEN [how |-> "skip", text |-> <<>>]
            ELSE Written(DictWriterRow(Fieldnames("A"),
                            IF m = "T" /\ op.kind = "update"
                            THEN Assign(row, op.set_column.name, op.set_value) ELSE row))
    IN Body(AllFilters(op.filters, [d \in {"A"} |-> row]))

\* one iteration of "for row in self.db"
ScanStep ==
    /\ mpc = "scan"
    /\ ridx <= Len(DatabaseIter("A"))
    /\ LET Step(o) ==
               IF o.how = "raise"
               THEN /\ UNCHANGED <<stream, tmpf>>
                    /\ Raise("raised_scan")
               ELSE /\ tmpf' = tmpf \o o.text
                    /\ ridx' = ridx + 1
                    /\ UNCHANGED <<stream, mpc, mop, tmpfOpen, copied, pre, mres, base, applog, app>>
       IN Step(RowOutput(mop, DatabaseIter("A")[ridx]))
    /\ UNCHANGED <<qvars, svars>>

\* reading the table or writing the scratch file fails with an I/O error
ScanIOError ==
    /\ mpc = "scan"
    /\ UNCHANGED <<stream, tmpf>>
    /\ Raise("raised_scan")
    /\ UNCHANGED <<qvars, svars>>

\* the loop is over: tmpf.seek(0), stream.seek(0), stream.truncate(0)
Truncate ==
    /\ mpc = "scan"
    /\ ridx > Len(DatabaseIter("A"))
    /\ stream' = [stream EXCEPT !["A"] = <<>>]
    /\ mpc' = "copy"
    /\ UNCHANGED <<mop, ridx, tmpf, tmpfOpen, copied, pre, mres, base, applog, app>>
    /\ UNCHANGED <<qvars, svars>>

Min(a, b) == IF a < b THEN a ELSE b

\* shutil.copyfileobj: one read of tmpf (text mode) and one write per round;
\* the empty read ends the copy, then tmpf.close()
CopyChunk ==
    /\ mpc = "copy"
    /\ LET Read(src) == SubSeq(src, copied + 1, Min(copied + CopyBufSize, Len(src)))
           Write(buf) ==
               IF buf # <<>>
               THEN /\ stream' = [stream EXCEPT !["A"] = @ \o buf]
                    /\ copied' = copied + Len(buf)
                    /\ UNCHANGED <<mpc, mop, ridx, tmpf, tmpfOpen, pre, mres, base, applog, app>>
               ELSE /\ tmpfOpen' = FALSE
                    /\ mpc' = "done"
                    /\ mres' = "ok"
                    /\ UNCHANGED <<stream, mop, ridx, tmpf, copied, pre, base, applog, app>>
       IN Write(Read(TranslateNewlines(tmpf)))
    /\ UNCHANGED <<qvars, svars>>

\* a read of tmpf or a write to the table fails during the copy
CopyIOError ==
    /\ mpc = "copy"
    /\ UNCHANGED <<stream, tmpf>>
    /\ Raise("raised_replace")
    /\ UNCHANGED <<qvars, svars>>

(* ------------------------------------------------------------------ *)
(* Query                                                               *)
(* ------------------------------------------------------------------ *)
\* most records in a table of a query
MaxQRows == 2
\* largest row cap passed to limit
MaxLimit == 2

NoLimit == [some |-> FALSE, n |-> 0]
Limit(n) == [some |-> TRUE, n |-> n]

Proj(c, alias) == [column |-> c, alias |-> alias]

\* Query.__init__: every column of every table, under its own name
DefaultProjections(dbs) ==
    IF Len(dbs) = 0 THEN <<>>
    ELSE [i \in 1..(2 * Len(dbs)) |->
            LET db == dbs[(i + 1) \div 2]
                name == Fieldnames(db)[2 - (i % 2)]
            IN Proj(Col(db, name), name)]

Query(dbs) == [dbs |-> dbs, filters |-> <<>>,
               projections |-> DefaultProjections(dbs), limit |-> NoLimit]

\* {str(id(head)): item, **rest}
Composite(head, item, rest) ==
    [d \in {head} \cup DOMAIN rest |-> IF d \in DOMAIN rest THEN rest[d] ELSE item]

\* product with inner tables that are not rewound: they are read through
\* once, for the first outer row only
RECURSIVE ProductNoRescan(_)
ProductNoRescan(dbs) ==
    IF dbs = <<>> THEN << <<>> >>
    ELSE LET Rows(head, items, rests) ==
                 IF Len(dbs) = 1
                 THEN [c \in 1..Len(items) |-> Composite(head, items[c], <<>>)]
                 ELSE [c \in 1..(IF items = <<>> THEN 0 ELSE Len(rests)) |->
                          Composite(head, items[1], rests[c])]
         IN Rows(Head(dbs), DatabaseIter(Head(dbs)), ProductNoRescan(Tail(dbs)))

\* the rows product(self.dbs) yields, in the order of its nested loops: the
\* inner tables are scanned again from the start for every outer row
RECURSIVE Product(_)
Product(dbs) ==
    IF dbs = <<>> THEN << <<>> >>
    ELSE LET Rows(head, items, rests) ==
                 [c \in 1..(Len(items) * Len(rests)) |->
                     Composite(head, items[((c - 1) \div Len(rests)) + 1],
                               rests[((c - 1) % Len(rests)) + 1])]
         IN Rows(Head(dbs), DatabaseIter(Head(dbs)), Product(Tail(dbs)))

\* the projection step of Query.__iter__; ok = FALSE is a KeyError
Project(projs, row) ==
    LET cols == {projs[i].column : i \in 1..Len(projs)}
        dbids == {c.dbid : c \in cols}
    IN IF \A c \in cols : ColumnCall(c, row).ok
       THEN [ok |-> TRUE,
             row |-> [d \in dbids |->
                        [n \in {c.name : c \in {x \in cols : x.dbid = d}} |-> row[d][n]]]]
       ELSE [ok |-> FALSE, row |-> <<>>]

\* the loop of Query.__iter__ from candidate j on, up to its next yield
RECURSIVE FindNext(_, _, _, _)
FindNext(qq, cands, j, count) ==
    IF j > Len(cands)
    THEN [st |-> "finished", idx |-> j, count |-> count, row |-> <<>>]
    ELSE LET Yield(p) ==
                 IF ~p.ok THEN [st |-> "raised", idx |-> j, count |-> count, row |-> <<>>]
                 ELSE [st |-> "suspended", idx |-> j, count |-> count, row |-> p.row]
             Body(m) ==
                 IF m = "E" THEN [st |-> "raised", idx |-> j, count |-> count, row |-> <<>>]
                 ELSE IF m = "F" THEN FindNext(qq, cands, j + 1, count)
                 ELSE Yield(Project(qq.projections, cands[j]))
         IN Body(AllFilters(qq.filters, cands[j]))

NewGen == [st |-> "created", idx |-> 0, count |-> 0, row |-> <<>>]

\* next() on the generator of Query.__iter__: st = "suspended" means it
\* yielded row; after a yield it resumes at "count += 1" and the cap test;
\* a generator that returned or raised is finished and yields nothing more
GenResume(qq, g) ==
    IF g.st = "suspended" /\ qq.limit.some /\ g.count + 1 >= qq.limit.n
    THEN [st |-> "finished", idx |-> g.idx, count |-> g.count + 1, row |-> <<>>]
    ELSE IF g.st \in {"created", "suspended"}
    THEN FindNext(qq, Product(qq.dbs), g.idx + 1,
                  IF g.st = "created" THEN 0 ELSE g.count + 1)
    ELSE [g EXCEPT !.st = "finished", !.row = <<>>]

HasDuplicates(seq) == \E i, j \in 1..Len(seq) : i < j /\ seq[i] = seq[j]

Aliases(projs) == [i \in 1..Len(projs) |-> projs[i].alias]

\* the body of the loop of Query._flatten: result[alias] = column(row)
Flatten(projs, row) ==
    [a \in Range(Aliases(projs)) |->
        LET i == CHOOSE i \in 1..Len(projs) :
                    projs[i].alias = a /\ \A j \in (i + 1)..Len(projs) : projs[j].alias # a
        IN ColumnCall(projs[i].column, row).val]

\* the tables a query reads
QueryDbs == { <<"A">>, <<"A", "B">>, <<"B", "A">> }

\* arguments of Query.filter
QueryFilters ==
    << <<Cmp("eq", Col("A", K), ColRef(Col("B", K)))>>,
       <<Cmp("eq", Col("B", W), IntLit(1))>> >>

\* arguments of Query.project
QueryProjections ==
    << <<Proj(Col("A", K), K), Proj(Col("B", K), K)>>,
       <<Proj(Col("B", W), W), Proj(Col("A", K), <<"a">>)>> >>

\* Query.filter: self.filters.extend(args); the caller passes its filters in
\* one call
QueryFilter(args) ==
    /\ qpc = "built"
    /\ q.filters = <<>>
    /\ q' = [q EXCEPT !.filters = @ \o args]
    /\ UNCHANGED <<gen, qpc, qerr, out, stdout, nrows, grp>>
    /\ UNCHANGED <<tvars, svars>>

\* Query.project
QueryProject(projs) ==
    /\ qpc = "built"
    /\ q' = [q EXCEPT !.projections = projs]
    /\ UNCHANGED <<gen, qpc, qerr, out, stdout, nrows, grp>>
    /\ UNCHANGED <<tvars, svars>>

\* Query.limit
QueryLimit(n) ==
    /\ qpc = "built"
    /\ q' = [q EXCEPT !.limit = Limit(n)]
    /\ UNCHANGED <<gen, qpc, qerr, out, stdout, nrows, grp>>
    /\ UNCHANGED <<tvars, svars>>

\* iter(query): the generator is created, none of its code has run
IterBegin ==
    /\ qpc = "built"
    /\ qpc' = "iter"
    /\ gen' = NewGen
    /\ UNCHANGED <<q, qerr, out, stdout, nrows, grp>>
    /\ UNCHANGED <<tvars, svars>>

\* next() by a caller that collects the rows; the caller may go on calling
\* next() after an exception
IterNext ==
    /\ qpc \in {"iter", "iter_raised"}
    /\ LET Pull(g) ==
               /\ gen' = g
               /\ out' = IF g.st = "suspended" THEN Append(out, g.row) ELSE out
               /\ qpc' = IF g.st = "suspended" THEN "iter"
                         ELSE IF g.st = "raised" \/ qpc = "iter_raised" THEN "iter_raised"
                         ELSE "iterated"
               /\ qerr' = IF g.st = "raised" THEN "filter or projection" ELSE qerr
       IN Pull(GenResume(q, gen))
    /\ UNCHANGED <<q, stdout, nrows, grp>>
    /\ UNCHANGED <<tvars, svars>>

\* Query.execute up to its loop: the alias check, then the header
ExecuteBegin ==
    /\ qpc = "built"
    /\ gen' = NewGen
    /\ IF HasDuplicates(Aliases(q.projections))
       THEN /\ qpc' = "raised"
            /\ qerr' = "duplicate column name"
            /\ UNCHANGED stdout
       ELSE /\ qpc' = "exec"
            /\ stdout' = stdout \o WriterRow(Aliases(q.projections))
            /\ UNCHANGED qerr
    /\ UNCHANGED <<q, out, nrows, grp>>
    /\ UNCHANGED <<tvars, svars>>

\* one round of "for row in self._flatten(iter(self)): writer.writerow(row)"
ExecuteRow ==
    /\ qpc = "exec"
    /\ LET Pull(g) ==
               /\ gen' = g
               /\ stdout' = IF g.st = "suspended"
                            THEN stdout \o DictWriterRow(Aliases(q.projections),
                                                         Flatten(q.projections, g.row)).text
                            ELSE stdout
               /\ qpc' = IF g.st = "suspended" THEN "exec"
                         ELSE IF g.st = "raised" THEN "raised" ELSE "done"
               /\ qerr' = IF g.st = "raised" THEN "filter or projection" ELSE qerr
               /\ nrows' = IF g.st = "suspended" THEN nrows + 1 ELSE nrows
       IN Pull(GenResume(q, gen))
    /\ UNCHANGED <<q, out, grp>>
    /\ UNCHANGED <<tvars, svars>>

(* ------------------------------------------------------------------ *)
(* external_sort                                                       *)
(* ------------------------------------------------------------------ *)
\* chunk_size of external_sort when Sort.execute calls it
DefaultChunkSize == 16

\* json.dumps / json.loads of a composite row: an object of objects whose
\* values are strings, or null for None
JsonDumps(row) ==
    [d \in DOMAIN row |->
        [n \in DOMAIN row[d] |->
            IF row[d][n] = None THEN [t |-> "null", s |-> <<>>]
            ELSE [t |-> "string", s |-> row[d][n]]]]

JsonLoads(line) ==
    [d \in DOMAIN line |->
        [n \in DOMAIN line[d] |->
            IF line[d][n].t = "null" THEN None ELSE line[d][n].s]]

\* the iterator external_sort reads: iter(list) or the generator of a query
ListIter(items) == [kind |-> "list", items |-> items, pos |-> 1, gen |-> NewGen]
QueryIter == [kind |-> "query", items |-> <<>>, pos |-> 1, gen |-> NewGen]

\* next(it)
ItNext(it) ==
    IF it.kind = "list"
    THEN IF it.pos <= Len(it.items)
         THEN [it |-> [it EXCEPT !.pos = @ + 1], tag |-> "item", val |-> it.items[it.pos]]
         ELSE [it |-> it, tag |-> "stop", val |-> <<>>]
    ELSE LET Pulled(g) ==
                 [it |-> [it EXCEPT !.gen = g],
                  tag |-> IF g.st = "suspended" THEN "item"
                          ELSE IF g.st = "raised" THEN "raise" ELSE "stop",
                  val |-> g.row]
         IN Pulled(GenResume(q, it.gen))

\* list(itertools.islice(it, n))
RECURSIVE TakeChunk(_, _, _)
TakeChunk(it, n, acc) ==
    IF n = 0 THEN [it |-> it, chunk |-> acc, raised |-> FALSE]
    ELSE LET Take(r) ==
                 IF r.tag = "item" THEN TakeChunk(r.it, n - 1, Append(acc, r.val))
                 ELSE [it |-> r.it, chunk |-> acc, raised |-> r.tag = "raise"]
         IN Take(ItNext(it))

\* the key of an item: the column, or key(column(item)) with key = int
KeyOf(params, item) ==
    LET Converted(i) == [ok |-> i.ok, n |-> i.val, s |-> <<>>]
        Key(c) == IF ~c.ok THEN [ok |-> FALSE, n |-> 0, s |-> <<>>]
                  ELSE IF params.key = "int" THEN Converted(IntOf(c.val))
                  ELSE [ok |-> TRUE, n |-> 0, s |-> c.val]
    IN Key(ColumnCall(params.column, item))

KeyLess(params, x, y) ==
    IF params.key = "int" THEN KeyOf(params, x).n < KeyOf(params, y).n
    ELSE StrLess(KeyOf(params, x).s, KeyOf(params, y).s)

\* x comes strictly before y in the requested direction
KeyBefore(params, x, y) ==
    IF params.reverse THEN KeyLess(params, y, x) ELSE KeyLess(params, x, y)

\* list.sort(key=key, reverse=reverse) is stable in both directions: an item
\* goes behind the items it does not come strictly before
RECURSIVE StableInsert(_, _, _)
StableInsert(params, sorted, x) ==
    IF sorted = <<>> THEN <<x>>
    ELSE IF KeyBefore(params, x, Head(sorted)) THEN <<x>> \o sorted
    ELSE <<Head(sorted)>> \o StableInsert(params, Tail(sorted), x)

RECURSIVE SortList(_, _)
SortList(params, items) ==
    IF items = <<>> THEN <<>>
    ELSE StableInsert(params, SortList(params, SubSeq(items, 1, Len(items) - 1)),
                      items[Len(items)])

\* a merge that prefers the rightmost run among equal keys
PickRunRightmost(params, lists) ==
    CHOOSE r \in 1..Len(lists) :
        /\ lists[r] # <<>>
        /\ \A r2 \in 1..Len(lists) :
              (r2 # r /\ lists[r2] # <<>>) =>
                 /\ ~KeyBefore(params, Head(lists[r2]), Head(lists[r]))
                 /\ r2 > r => KeyBefore(params, Head(lists[r]), Head(lists[r2]))

\* heapq.merge picks the run whose head comes first; among equal keys the
\* leftmost run (the heap entries are [key, order, ...], order negated for
\* reverse)
PickRun(params, lists) ==
    CHOOSE r \in 1..Len(lists) :
        /\ lists[r] # <<>>
        /\ \A r2 \in 1..Len(lists) :
              (r2 # r /\ lists[r2] # <<>>) =>
                 /\ ~KeyBefore(params, Head(lists[r2]), Head(lists[r]))
                 /\ r2 < r => KeyBefore(params, Head(lists[r]), Head(lists[r2]))

RECURSIVE MergeLists(_, _)
MergeLists(params, lists) ==
    IF \A r \in 1..Len(lists) : lists[r] = <<>> THEN <<>>
    ELSE LET Pop(r) ==
                 <<Head(lists[r])>> \o MergeLists(params, [lists EXCEPT ![r] = Tail(@)])
         IN Pop(PickRun(params, lists))

\* a scratch file after its lines are written and seek(0)
RunFile(items) == [lines |-> [i \in 1..Len(items) |-> JsonDumps(items[i])],
                   pos |-> 1, open |-> TRUE]

\* map(json.loads, f): the items of a run that are not yet read
Unread(f) == [i \in 1..(Len(f.lines) - f.pos + 1) |-> JsonLoads(f.lines[f.pos + i - 1])]

NewSort(it, params) ==
    [spc |-> "created", it |-> it, params |-> params, tmpfs |-> <<>>,
     tag |-> "", val |-> <<>>]

\* run generation that writes each chunk as it was read, without chunk.sort
RunGenUnsorted(e) ==
    LET Run(t) ==
            IF t.raised \/ \E i \in 1..Len(t.chunk) : ~KeyOf(e.params, t.chunk[i]).ok
            THEN [e EXCEPT !.it = t.it, !.spc = "raised", !.tag = "raise"]
            ELSE IF t.chunk = <<>>
            THEN [e EXCEPT !.it = t.it, !.spc = "merge"]
            ELSE [e EXCEPT !.it = t.it,
                           !.tmpfs = Append(@, RunFile(t.chunk)),
                           !.spc = IF Len(t.chunk) < e.params.chunk_size
                                   THEN "merge" ELSE "rungen"]
    IN Run(TakeChunk(e.it, e.params.chunk_size, <<>>))

\* one round of the run generation loop
RunGen(e) ==
    LET Run(t) ==
            IF t.raised \/ \E i \in 1..Len(t.chunk) : ~KeyOf(e.params, t.chunk[i]).ok
            THEN [e EXCEPT !.it = t.it, !.spc = "raised", !.tag = "raise"]
            ELSE IF t.chunk = <<>>
            THEN [e EXCEPT !.it = t.it, !.spc = "merge"]
            ELSE [e EXCEPT !.it = t.it,
                           !.tmpfs = Append(@, RunFile(SortList(e.params, t.chunk))),
                           !.spc = IF Len(t.chunk) < e.params.chunk_size
                                   THEN "merge" ELSE "rungen"]
    IN Run(TakeChunk(e.it, e.params.chunk_size, <<>>))

\* tmpfs[i : i + chunk_size] for the g-th round of the for loop
Group(tmpfs, size, g) ==
    SubSeq(tmpfs, (g - 1) * size + 1, Min(g * size, Len(tmpfs)))

\* one round of "while len(tmpfs) > chunk_size": every group of chunk_size
\* runs is merged into a new run, and the new runs replace the old ones
MergePass(e) ==
    LET size == e.params.chunk_size
        ngroups == (Len(e.tmpfs) + size - 1) \div size
    IN [e EXCEPT !.tmpfs =
          [g \in 1..ngroups |->
              LET chunk == Group(e.tmpfs, size, g)
              IN RunFile(MergeLists(e.params, [i \in 1..Len(chunk) |-> Unread(chunk[i])]))]]

\* the while loop is left: the final heapq.merge is set up
EnterFinal(e) == [e EXCEPT !.spc = "final"]

\* the final merge yields its next item, reading it from its run
FinalYield(e) ==
    LET Pop(lists, r) ==
            [e EXCEPT !.tmpfs[r].pos = @ + 1, !.tag = "item", !.val = Head(lists[r])]
        Pick(lists) == Pop(lists, PickRun(e.params, lists))
    IN Pick([i \in 1..Len(e.tmpfs) |-> Unread(e.tmpfs[i])])

\* the final merge is exhausted: for f in tmpfs: f.close()
CloseRuns(e) ==
    [e EXCEPT !.tmpfs = [i \in 1..Len(e.tmpfs) |-> [e.tmpfs[i] EXCEPT !.open = FALSE]],
              !.spc = "closed", !.tag = "stop", !.val = <<>>]

Exhausted(e) == \A i \in 1..Len(e.tmpfs) : e.tmpfs[i].pos > Len(e.tmpfs[i].lines)

\* next() on the generator of external_sort: it runs to its next yield, to
\* its end or to an exception
RECURSIVE SortResume(_)
SortResume(e) ==
    CASE e.spc \in {"created", "rungen"} -> SortResume(RunGen(e))
      [] e.spc = "merge" ->
            IF Len(e.tmpfs) > e.params.chunk_size
            THEN SortResume(MergePass(e)) ELSE SortResume(EnterFinal(e))
      [] e.spc = "final" -> IF Exhausted(e) THEN CloseRuns(e) ELSE FinalYield(e)
      [] OTHER -> [e EXCEPT !.tag = IF e.spc = "raised" THEN "raise" ELSE "stop"]

(* the steps of external_sort, one action each (SpecSort) *)
SortRunGen ==
    /\ es.spc \in {"created", "rungen"}
    /\ es' = RunGen(es)
    /\ UNCHANGED <<sout, tvars, qvars>>

SortMergePass ==
    /\ es.spc = "merge"
    /\ Len(es.tmpfs) > es.params.chunk_size
    /\ es' = MergePass(es)
    /\ UNCHANGED <<sout, tvars, qvars>>

SortEnterFinal ==
    /\ es.spc = "merge"
    /\ Len(es.tmpfs) <= es.params.chunk_size
    /\ es' = EnterFinal(es)
    /\ UNCHANGED <<sout, tvars, qvars>>

SortYield ==
    /\ es.spc = "final"
    /\ ~Exhausted(es)
    /\ es' = FinalYield(es)
    /\ sout' = Append(sout, es'.val)
    /\ UNCHANGED <<tvars, qvars>>

SortClose ==
    /\ es.spc = "final"
    /\ Exhausted(es)
    /\ es' = CloseRuns(es)
    /\ UNCHANGED <<sout, tvars, qvars>>

(* ------------------------------------------------------------------ *)
(* Sort                                                                *)
(* ------------------------------------------------------------------ *)
\* the calls query.sort(column, key, reverse).limit(n) of the model
SortCalls ==
    << [column |-> Col("A", K), key |-> "none", reverse |-> FALSE, limit |-> NoLimit],
       [column |-> Col("A", K), key |-> "int", reverse |-> TRUE, limit |-> Limit(1)],
       [column |-> Col("B", W), key |-> "none", reverse |-> TRUE, limit |-> Limit(0)],
       [column |-> Col("A", V), key |-> "none", reverse |-> FALSE, limit |-> NoLimit] >>

SortParams(call) ==
    [column |-> call.column, key |-> call.key, reverse |-> call.reverse,
     chunk_size |-> DefaultChunkSize, limit |-> call.limit]

\* Sort.execute that writes the header before it looks at the aliases
SortExecuteBeginHeaderFirst(call) ==
    /\ qpc = "built"
    /\ gen' = NewGen
    /\ es' = NewSort(QueryIter, SortParams(call))
    /\ stdout' = stdout \o WriterRow(Aliases(q.projections))
    /\ IF HasDuplicates(Aliases(q.projections))
       THEN /\ qpc' = "raised"
            /\ qerr' = "duplicate column name"
       ELSE /\ qpc' = "sort"
            /\ UNCHANGED qerr
    /\ UNCHANGED <<q, out, nrows, grp, sout, tvars>>

\* Sort.execute up to its loop: the two generators are created (none of
\* their code runs), then the alias check, then the header
SortExecuteBegin(call) ==
    /\ qpc = "built"
    /\ gen' = NewGen
    /\ es' = NewSort(QueryIter, SortParams(call))
    /\ IF HasDuplicates(Aliases(q.projections))
       THEN /\ qpc' = "raised"
            /\ qerr' = "duplicate column name"
            /\ UNCHANGED stdout
       ELSE /\ qpc' = "sort"
            /\ stdout' = stdout \o WriterRow(Aliases(q.projections))
            /\ UNCHANGED qerr
    /\ UNCHANGED <<q, out, nrows, grp, sout, tvars>>

\* one round of "for row in it: writer.writerow(row)", it being
\* islice(_flatten(sorted_it), limit)
SortExecuteRow ==
    /\ qpc = "sort"
    /\ IF es.params.limit.some /\ nrows >= es.params.limit.n
       THEN /\ qpc' = "done"
            /\ UNCHANGED <<es, sout, stdout, nrows, qerr>>
       ELSE LET Pull(e) ==
                    /\ es' = e
                    /\ sout' = IF e.tag = "item" THEN Append(sout, e.val) ELSE sout
                    /\ stdout' = IF e.tag = "item"
                                 THEN stdout \o DictWriterRow(Aliases(q.projections),
                                                  Flatten(q.projections, e.val)).text
                                 ELSE stdout
                    /\ nrows' = IF e.tag = "item" THEN nrows + 1 ELSE nrows
                    /\ qpc' = IF e.tag = "item" THEN "sort"
                              ELSE IF e.tag = "raise" THEN "raised" ELSE "done"
                    /\ qerr' = IF e.tag = "raise" THEN "filter, projection or key" ELSE qerr
            IN Pull(SortResume(es))
    /\ UNCHANGED <<q, gen, out, grp, tvars>>

(* ------------------------------------------------------------------ *)
(* Groupby                                                             *)
(* ------------------------------------------------------------------ *)
NoGroupby == [some |-> FALSE, columns |-> <<>>]

\* the column tuples of Query.groupby
GroupbyColumns ==
    << <<Col("A", K)>>,
       <<Col("A", V)>>,
       <<Col("A", K), Col("B", K)>> >>

CountName == <<"c", "o", "u", "n", "t">>

\* tuple(c(row) for c in self.columns) can be computed
GroupKeyOk(columns, row) == \A i \in 1..Len(columns) : ColumnCall(columns[i], row).ok

GroupKey(columns, row) == [i \in 1..Len(columns) |-> ColumnCall(columns[i], row).val]

\* result[key] += 1 on a defaultdict(int), which keeps its keys in the order
\* of their first insertion
CountKey(result, key) ==
    IF \E i \in 1..Len(result) : result[i].key = key
    THEN [i \in 1..Len(result) |->
             IF result[i].key = key THEN [result[i] EXCEPT !.count = @ + 1] ELSE result[i]]
    ELSE Append(result, [key |-> key, count |-> 1])

\* "for row in self.query": the rows are pulled from the generator of the
\* query one by one; how is "ok", "query" (the generator raised) or "key"
RECURSIVE GroupbyLoop(_, _, _, _)
GroupbyLoop(qq, columns, g, result) ==
    LET Body(g2) ==
            IF g2.st = "suspended"
            THEN IF GroupKeyOk(columns, g2.row)
                 THEN GroupbyLoop(qq, columns, g2, CountKey(result, GroupKey(columns, g2.row)))
                 ELSE [gen |-> g2, result |-> result, how |-> "key"]
            ELSE [gen |-> g2, result |-> result,
                  how |-> IF g2.st = "raised" THEN "query" ELSE "ok"]
    IN Body(GenResume(qq, g))

\* the fieldnames of the writer of count
GroupbyFieldnames(columns) == [i \in 1..Len(columns) |-> columns[i].name] \o <<CountName>>

\* d after "for c, k in zip(self.columns, key): d[c.name] = k" and
\* d["count"] = count
GroupbyRecord(columns, key, count) ==
    [n \in Range(GroupbyFieldnames(columns)) |->
        IF n = CountName THEN StrOfNat(count)
        ELSE key[CHOOSE i \in 1..Len(columns) :
                    /\ columns[i].name = n
                    /\ \A j \in (i + 1)..Len(columns) : columns[j].name # n]]

RECURSIVE GroupbyRows(_, _)
GroupbyRows(columns, result) ==
    IF result = <<>> THEN <<>>
    ELSE DictWriterRow(GroupbyFieldnames(columns),
                       GroupbyRecord(columns, Head(result).key, Head(result).count)).text
         \o GroupbyRows(columns, Tail(result))

\* query.groupby(*columns).count()
GroupbyCount(columns) ==
    /\ qpc = "built"
    /\ grp' = [some |-> TRUE, columns |-> columns]
    /\ LET Counted(r) ==
               /\ gen' = r.gen
               /\ IF r.how = "ok"
                  THEN /\ stdout' = stdout \o WriteHeader(GroupbyFieldnames(columns))
                                           \o GroupbyRows(columns, r.result)
                       /\ nrows' = Len(r.result)
                       /\ qpc' = "done"
                       /\ UNCHANGED qerr
                  ELSE /\ qpc' = "raised"
                       /\ qerr' = IF r.how = "key" THEN "grouping column"
                                  ELSE "filter or projection"
                       /\ UNCHANGED <<stdout, nrows>>
       IN Counted(GroupbyLoop(q, columns, NewGen, <<>>))
    /\ UNCHANGED <<q, out>>
    /\ UNCHANGED <<tvars, svars>>

(* ------------------------------------------------------------------ *)
(* Specifications                                                      *)
(* ------------------------------------------------------------------ *)
vars == <<tvars, qvars, svars>>

SeqsUpTo(S, n) == UNION {[1..m -> S] : m \in 0..n}

\* a table made by Database(path, fieldnames) and append
RECURSIVE WriteRows(_, _)
WriteRows(fieldnames, recs) ==
    IF recs = <<>> THEN <<>>
    ELSE DictWriterRow(fieldnames, Head(recs)).text \o WriteRows(fieldnames, Tail(recs))

WriteTable(db, recs) == WriteHeader(Fieldnames(db)) \o WriteRows(Fieldnames(db), recs)

MutationIdle ==
    /\ mpc = "idle"
    /\ mop = NoOp
    /\ ridx = 1
    /\ tmpf = <<>>
    /\ tmpfOpen = FALSE
    /\ copied = 0
    /\ pre = <<>>
    /\ mres = "none"
    /\ base = stream["A"]
    /\ applog = <<>>
    /\ app = NoAppend

QueryIdle(dbs) ==
    /\ q = Query(dbs)
    /\ gen = NewGen
    /\ qpc = "built"
    /\ qerr = ""
    /\ out = <<>>
    /\ stdout = <<>>
    /\ nrows = 0
    /\ grp = NoGroupby

\* no Update or Delete exists
MutationNone ==
    /\ mpc = "none"
    /\ mop = NoOp
    /\ ridx = 1
    /\ tmpf = <<>>
    /\ tmpfOpen = FALSE
    /\ copied = 0
    /\ pre = <<>>
    /\ mres = "none"
    /\ base = stream["A"]
    /\ applog = <<>>
    /\ app = NoAppend

\* no Query exists
QueryNone ==
    /\ q = Query(<<>>)
    /\ gen = NewGen
    /\ qpc = "none"
    /\ qerr = ""
    /\ out = <<>>
    /\ stdout = <<>>
    /\ nrows = 0
    /\ grp = NoGroupby

SortIdle ==
    /\ es = NewSort(ListIter(<<>>), SortParams(SortCalls[1]))
    /\ sout = <<>>

(* the table and its mutations: appends populate the table, then one Update
   or Delete executes on it *)
TableInit ==
    /\ stream \in {[d \in DbIds |-> IF d = "A" THEN f ELSE WriteHeader(Fieldnames(d))] :
                        f \in InitialFiles}
    /\ MutationIdle
    /\ QueryNone
    /\ SortIdle

TableNext ==
    \/ \E rec \in AppendRecords \cup MismatchRecords : DatabaseAppend(rec)
    \/ \E op \in MutationOps : MutationBegin(op)
    \/ ScanStep
    \/ ScanIOError
    \/ Truncate
    \/ CopyChunk
    \/ CopyIOError

SpecTable == TableInit /\ [][TableNext]_vars

(* queries over two tables *)
JoinKeys == {<<"1">>, <<"0", "1">>}

QueryRecordsA == {[n \in {K, V} |-> IF n = K THEN k ELSE <<"a">>] : k \in JoinKeys}

B1 == [n \in {K, W} |-> IF n = K THEN <<"1">> ELSE <<"b">>]
B2 == [n \in {K, W} |-> IF n = K THEN <<"0", "1">> ELSE <<"1">>]

QueryTablesB == { <<>>, <<B1>>, <<B2, B1>> }

QueryInit ==
    /\ \E ra \in SeqsUpTo(QueryRecordsA, MaxQRows), rb \in QueryTablesB :
          stream = [d \in DbIds |-> IF d = "A" THEN WriteTable("A", ra)
                                    ELSE WriteTable("B", rb)]
    /\ MutationNone
    /\ \E dbs \in QueryDbs : QueryIdle(dbs)
    /\ SortIdle

QueryNext ==
    \/ \E i \in 1..Len(QueryFilters) : QueryFilter(QueryFilters[i])
    \/ \E i \in 1..Len(QueryProjections) : QueryProject(QueryProjections[i])
    \/ \E n \in 0..MaxLimit : QueryLimit(n)
    \/ IterBegin
    \/ IterNext
    \/ ExecuteBegin
    \/ ExecuteRow
    \/ \E i \in 1..Len(SortCalls) : SortExecuteBegin(SortCalls[i])
    \/ SortExecuteRow
    \/ \E i \in 1..Len(GroupbyColumns) : GroupbyCount(GroupbyColumns[i])

SpecQuery == QueryInit /\ [][QueryNext]_vars

(* the tables with their mutations, and the queries: a behaviour is one of
   SpecTable or one of SpecQuery *)
DbInit == TableInit \/ QueryInit

DbNext == TableNext \/ QueryNext

SpecDb == DbInit /\ [][DbNext]_vars

(* external_sort over a list of rows *)
\* longest input of external_sort
MaxSortLen == 5
\* largest chunk_size
MaxChunk == 3

SortKeys == {<<"2">>, <<"1", "0">>}

\* rows of one table: the sort key in column k, the position in column v
SortItems(keys) ==
    [i \in 1..Len(keys) |->
        [d \in {"A"} |-> [n \in {K, V} |-> IF n = K THEN keys[i] ELSE <<DigitChar(i)>>]]]

SortInit ==
    /\ stream = [d \in DbIds |-> WriteHeader(Fieldnames(d))]
    /\ MutationNone
    /\ QueryNone
    /\ sout = <<>>
    /\ \E keys \in SeqsUpTo(SortKeys, MaxSortLen), key \in {"none", "int"},
          reverse \in BOOLEAN, size \in 1..MaxChunk :
          es = NewSort(ListIter(SortItems(keys)),
                       [column |-> Col("A", K), key |-> key, reverse |-> reverse,
                        chunk_size |-> size, limit |-> NoLimit])

SortNext ==
    \/ SortRunGen
    \/ SortMergePass
    \/ SortEnterFinal
    \/ SortYield
    \/ SortClose

SpecSort == SortInit /\ [][SortNext]_vars

(* ------------------------------------------------------------------ *)
(* Properties of the mutations and of append (SpecTable)               *)
(* ------------------------------------------------------------------ *)
CompositeOf(row) == [d \in {"A"} |-> row]

Matches(op, row) == AllFilters(op.filters, CompositeOf(row)) = "T"

\* C1: when Update.execute or Delete.execute fails during its scan-and-write
\* pass (a filter raises, the row cannot be written, an I/O error), the
\* backing file of the table is character for character what it was when
\* execute was called, hence the same header and records in the same order.
C1_ScanFailureKeepsStorage ==
    (mpc = "done" /\ mres = "raised_scan") => stream["A"] = pre

\* a filter raised on the second record of the table, after the first one
\* had been written to the scratch file
C1_Witness ==
    /\ mpc = "done" /\ mres = "raised_scan"
    /\ ridx = 2
    /\ Len(DictReader(pre)) >= 2
    /\ AllFilters(mop.filters, CompositeOf(DictReader(pre)[2])) = "E"
    /\ Len(tmpf) > Len(WriteHeader(Fieldnames("A")))

\* C2: a failure during the replacement step (after truncate, before the
\* end of the copy) leaves the backing file with its original content.
C2_ReplaceFailureKeepsOriginal ==
    (mpc = "done" /\ mres = "raised_replace") => stream["A"] = pre

\* C8: a completed Update keeps the number and order of the records; a record
\* that all filters accept has the assigned column set to the new value and
\* its other fields unchanged, every other record is unchanged.
C8_UpdateFrame ==
    (mpc = "done" /\ mres = "ok" /\ mop.kind = "update") =>
        LET old == DictReader(pre)
            new == DictReader(stream["A"])
        IN /\ Len(new) = Len(old)
           /\ \A i \in 1..Len(old) :
                new[i] = IF Matches(mop, old[i])
                         THEN Assign(old[i], mop.set_column.name, mop.set_value)
                         ELSE old[i]

\* C9: a completed Delete leaves exactly the records that some filter
\* rejects, unchanged and in their original order, under the same header.
C9_DeleteFrame ==
    (mpc = "done" /\ mres = "ok" /\ mop.kind = "delete") =>
        /\ DictReader(stream["A"]) = SelectSeq(DictReader(pre), LAMBDA r : ~Matches(mop, r))
        /\ ReaderFieldnames(stream["A"]) = ReaderFieldnames(pre)

\* C11: append of a record whose keys are not exactly the columns of the
\* table raises and leaves the backing file as it was.
C11_SchemaMismatchRejected ==
    (mpc = "idle" /\ app.res # "none" /\ DOMAIN app.rec # Range(Fieldnames("A"))) =>
        /\ app.res = "raised"
        /\ stream["A"] = app.before

\* C10: after a sequence of appends of schema-conforming records, a scan
\* yields the records stored before, in their order, followed by the
\* appended records in append order, field for field.
C10_AppendRoundTrip ==
    mpc = "idle" => DictReader(stream["A"]) = DictReader(base) \o applog

(* ------------------------------------------------------------------ *)
(* Properties of queries (SpecQuery)                                   *)
(* ------------------------------------------------------------------ *)
\* list(query): the rows a fresh iteration yields, and how it ended
RECURSIVE Drain(_, _, _)
Drain(qq, g, acc) ==
    LET g2 == GenResume(qq, g)
    IN IF g2.st = "suspended" THEN Drain(qq, g2, Append(acc, g2.row))
       ELSE [st |-> g2.st, rows |-> acc]

Uncapped(qq) == Drain([qq EXCEPT !.limit = NoLimit], NewGen, <<>>)

Count(seq, x) == Cardinality({i \in 1..Len(seq) : seq[i] = x})

\* C3: an iteration of a query capped by limit(n) yields the first
\* min(n, M) rows of the M rows the same query yields without a cap.
C3_LimitPrefix ==
    (qpc = "iterated" /\ q.limit.some /\ Uncapped(q).st = "finished") =>
        out = SubSeq(Uncapped(q).rows, 1, Min(q.limit.n, Len(Uncapped(q).rows)))

JoinFilter == QueryFilters[1]

\* the pairs of record positions of A and B with equal linking strings
JoinPairs ==
    {p \in (1..Len(DictReader(stream["A"]))) \X (1..Len(DictReader(stream["B"]))) :
        DictReader(stream["A"])[p[1]][K] = DictReader(stream["B"])[p[2]][K]}

PairRow(p) ==
    [d \in {"A", "B"} |-> IF d = "A" THEN DictReader(stream["A"])[p[1]]
                          ELSE DictReader(stream["B"])[p[2]]]

\* C6: the query over A and B (in either order) filtered by A.k == B.k
\* yields one row for every pair of records whose k fields are the same
\* string, and nothing else; the multiset does not depend on the order in
\* which the tables were given.
C6_JoinExact ==
    (/\ qpc = "iterated"
     /\ q.dbs \in {<<"A", "B">>, <<"B", "A">>}
     /\ q.filters = JoinFilter
     /\ q.projections = DefaultProjections(q.dbs)
     /\ ~q.limit.some) =>
        /\ \A n \in 1..Len(out) : \E p \in JoinPairs : out[n] = PairRow(p)
        /\ \A p \in JoinPairs :
              Count(out, PairRow(p)) = Cardinality({p2 \in JoinPairs : PairRow(p2) = PairRow(p)})

\* B was given first; some pairs match and some do not
C6_Witness ==
    /\ qpc = "iterated"
    /\ q.dbs = <<"B", "A">>
    /\ q.filters = JoinFilter
    /\ q.projections = DefaultProjections(q.dbs)
    /\ ~q.limit.some
    /\ Len(out) >= 2
    /\ Len(out) < Len(DictReader(stream["A"])) * Len(DictReader(stream["B"]))

\* C7: Query.execute and Sort.execute of a query with a repeated alias
\* raise the duplicate-alias error with nothing written to stdout, no row
\* pulled from the query and no run file created.
C7_DuplicateAliasBeforeOutput ==
    (/\ HasDuplicates(Aliases(q.projections))
     /\ ~grp.some
     /\ qpc \in {"exec", "sort", "done", "raised"}) =>
        /\ qpc = "raised"
        /\ qerr = "duplicate column name"
        /\ stdout = <<>>
        /\ nrows = 0
        /\ gen = NewGen
        /\ es.tmpfs = <<>>
        /\ es.spc = "created"

\* Sort.execute on the default projection of two tables that both have a
\* column k, with rows to emit
C7_Witness ==
    /\ qpc = "raised"
    /\ qerr = "duplicate column name"
    /\ es.it.kind = "query"
    /\ Len(q.dbs) = 2
    /\ q.projections = DefaultProjections(q.dbs)
    /\ Uncapped(q).rows # <<>>

(* ------------------------------------------------------------------ *)
(* Properties of external_sort (SpecSort)                              *)
(* ------------------------------------------------------------------ *)
SortInput == es.it.items

IsPermutation(s, t) ==
    /\ Len(s) = Len(t)
    /\ \A i \in 1..Len(t) : Count(s, t[i]) = Count(t, t[i])

Monotonic(params, s) == \A i \in 1..(Len(s) - 1) : ~KeyBefore(params, s[i + 1], s[i])

\* C4: what external_sort yields is in key order (non-decreasing, or
\* non-increasing for reverse), and once it is exhausted the yielded
\* sequence is a permutation of the input.
C4_SortedPermutation ==
    /\ Monotonic(es.params, sout)
    /\ es.spc = "closed" => IsPermutation(sout, SortInput)

\* five rows in runs of two: three runs, one intermediate merge pass, then
\* the final merge of two runs, in reverse order
C4_Witness ==
    /\ es.spc = "closed"
    /\ es.params.chunk_size = 2
    /\ es.params.reverse
    /\ Len(SortInput) >= 5
    /\ Len(es.tmpfs) = 2
    /\ sout # SortInput
    /\ \E i \in 1..Len(sout) : sout[i]["A"][K] # sout[1]["A"][K]

\* the position of a row in the input (the rows of the input differ)
InputPos(x) == CHOOSE i \in 1..Len(SortInput) : SortInput[i] = x

\* C5: for every chunk size the exhausted sort has yielded the stable sort
\* of the input: of two yielded rows the earlier one comes strictly first
\* by key, or has the same key and was earlier in the input.
C5_StableAnyChunk ==
    es.spc = "closed" =>
        /\ Len(sout) = Len(SortInput)
        /\ \A i \in 1..Len(sout) : \E j \in 1..Len(SortInput) : sout[i] = SortInput[j]
        /\ \A i, j \in 1..Len(sout) :
              i < j => \/ KeyBefore(es.params, sout[i], sout[j])
                       \/ /\ ~KeyBefore(es.params, sout[j], sout[i])
                          /\ InputPos(sout[i]) < InputPos(sout[j])

\* reverse order, equal keys in different runs and through a merge pass
C5_Witness ==
    /\ es.spc = "closed"
    /\ es.params.reverse
    /\ es.params.chunk_size = 2
    /\ Len(SortInput) >= 5
    /\ SortInput[1]["A"][K] = SortInput[5]["A"][K]
    /\ SortInput[2]["A"][K] # SortInput[1]["A"][K]
    /\ SortInput[3]["A"][K] = SortInput[1]["A"][K]

\* the left operand of a predicate built with & or | decides it on row, and
\* its right operand raises there
LeftDecides(f, row) ==
    /\ f.t \in {"and", "or"}
    /\ Eval(f.l, CompositeOf(row)) = (IF f.t = "and" THEN "F" ELSE "T")
    /\ Eval(f.r, CompositeOf(row)) = "E"

\* what the loop body of a mutation does with a row on which its filters
\* are m
OutputFor(op, row, m) ==
    IF m /\ op.kind = "delete" THEN [how |-> "skip", text |-> <<>>]
    ELSE IF m
    THEN [how |-> "write",
          text |-> DictWriterRow(Fieldnames("A"),
                                 Assign(row, op.set_column.name, op.set_value)).text]
    ELSE [how |-> "write", text |-> DictWriterRow(Fieldnames("A"), row).text]

\* C16: on a row where the left operand of & is false, or the left operand
\* of | is true, the right operand is not evaluated: the failure it would
\* raise is not raised and the predicate is what the left operand says, so
\* the mutation treats the row as not matching (&) or matching (|).
C16_ShortCircuit ==
    (mpc \in {"scan", "copy", "done"} /\ Len(mop.filters) = 1) =>
        \A j \in 1..Len(DictReader(pre)) :
            (/\ LeftDecides(mop.filters[1], DictReader(pre)[j])
             /\ DictWriterRow(Fieldnames("A"), DictReader(pre)[j]).ok) =>
                /\ Eval(mop.filters[1], CompositeOf(DictReader(pre)[j]))
                      = Eval(mop.filters[1].l, CompositeOf(DictReader(pre)[j]))
                /\ RowOutput(mop, DictReader(pre)[j])
                      = OutputFor(mop, DictReader(pre)[j], mop.filters[1].t = "or")

\* a mutation filtered by an & predicate has completed on a table with a
\* row on which the left operand is false and the right one would raise
C16_Witness ==
    /\ mpc = "done"
    /\ mres = "ok"
    /\ Len(mop.filters) = 1
    /\ mop.filters[1].t = "and"
    /\ \E j \in 1..Len(DictReader(pre)) : LeftDecides(mop.filters[1], DictReader(pre)[j])

\* C19: a comparison of a column with another column, by any of the six
\* operators, gives on every row the comparison of the two stored strings
\* as they are, and raises nothing.
C19_ColumnComparison ==
    (/\ mpc \in {"scan", "copy", "done"}
     /\ Len(mop.filters) = 1
     /\ mop.filters[1].t = "cmp"
     /\ mop.filters[1].other.k = "col") =>
        \A j \in 1..Len(DictReader(pre)) :
            (/\ DOMAIN DictReader(pre)[j] = Range(Fieldnames("A"))
             /\ \A n \in DOMAIN DictReader(pre)[j] : DictReader(pre)[j][n] # None) =>
                Eval(mop.filters[1], CompositeOf(DictReader(pre)[j]))
                   = Bool3(CmpStr(mop.filters[1].op,
                                  DictReader(pre)[j][mop.filters[1].col.name],
                                  DictReader(pre)[j][mop.filters[1].other.name]))

(* ------------------------------------------------------------------ *)
(* Properties of queries and mutations together (SpecDb)               *)
(* ------------------------------------------------------------------ *)
\* evaluating the filters on row reaches a comparison with an int literal
\* whose column holds a string that is no integer
HitsCoercion(fs, row) ==
    \E i \in 1..Len(fs) :
        /\ fs[i].t = "cmp"
        /\ fs[i].other.k = "int"
        /\ ColumnCall(fs[i].col, row).ok
        /\ ~IntOf(ColumnCall(fs[i].col, row).val).ok
        /\ \A j \in 1..(i - 1) : Eval(fs[j], row) = "T"

\* j is the first row of rows on which the filters hit a failed conversion
FirstCoercion(fs, rows, j) ==
    /\ j \in 1..Len(rows)
    /\ HitsCoercion(fs, rows[j])
    /\ \A i \in 1..(j - 1) : ~HitsCoercion(fs, rows[i])

\* the generator of Query.__iter__ that is in use
ActiveGen == IF es.it.kind = "query" THEN es.it.gen ELSE gen

\* C12: a comparison with a literal on a row whose string cannot be converted
\* raises at that row: the scan of a query, an update or a delete never gets
\* past the row, the operation ends raised, and a query yields no row beyond
\* those found before it.
C12_CoercionFailureRaises ==
    /\ qpc \notin {"none", "built"} =>
          LET QueryRaises(rows) ==
                  \A j \in 1..Len(rows) :
                      FirstCoercion(q.filters, rows, j) =>
                          /\ ActiveGen.idx <= j
                          /\ ActiveGen.idx = j =>
                                /\ qpc \in {"iter_raised", "raised"}
                                /\ qerr \in {"filter or projection", "filter, projection or key"}
                          /\ Len(out) <= j - 1
                          /\ nrows <= j - 1
                          /\ \A n \in 1..Len(out) :
                                \E i \in 1..(j - 1) : out[n] = Project(q.projections, rows[i]).row
          IN QueryRaises(Product(q.dbs))
    /\ mpc \in {"scan", "copy", "done"} =>
          LET MutationRaises(rows) ==
                  \A j \in 1..Len(rows) :
                      FirstCoercion(mop.filters, [i \in 1..Len(rows) |-> CompositeOf(rows[i])], j) =>
                          /\ ridx <= j
                          /\ mpc # "copy"
                          /\ mpc = "done" => mres = "raised_scan"
                          /\ stream["A"] = pre
          IN MutationRaises(DictReader(pre))

\* a query over two tables raised on its second candidate row after it had
\* yielded the first; rows that match come after the failing one; the caller
\* called next() once more
C12_Witness ==
    /\ qpc = "iter_raised"
    /\ Len(q.dbs) = 2
    /\ FirstCoercion(q.filters, Product(q.dbs), 2)
    /\ Len(out) = 1
    /\ gen.st = "finished"
    /\ \E i \in 3..Len(Product(q.dbs)) : AllFilters(q.filters, Product(q.dbs)[i]) = "T"

\* C13: when a mutation or a sort has ended (returned, raised, or stopped at
\* the row cap), every scratch file it opened is closed: the temporary file
\* of the mutation and every run file of external_sort.
C13_ScratchFilesClosed ==
    /\ mpc = "done" => ~tmpfOpen
    /\ (es.it.kind = "query" /\ qpc \in {"done", "raised"}) =>
          \A i \in 1..Len(es.tmpfs) : ~es.tmpfs[i].open

(* ------------------------------------------------------------------ *)
(* Termination of the merge loop (SpecSort)                            *)
(* ------------------------------------------------------------------ *)
\* C14: whenever external_sort is in its loop "while len(tmpfs) > chunk_size",
\* the merge pass it is about to run leaves strictly fewer runs than it found,
\* for every chunk size from 1 on; this is what makes the loop end and the
\* final merge begin.
C14_MergePassShrinks ==
    (es.spc = "merge" /\ Len(es.tmpfs) > es.params.chunk_size) =>
        Len(MergePass(es).tmpfs) < Len(es.tmpfs)

(* ------------------------------------------------------------------ *)
(* Laziness of the capped iteration (SpecQuery)                        *)
(* ------------------------------------------------------------------ *)
\* the number of rows the generator has pulled from the nested product
Pulled == Min(ActiveGen.idx, Len(Product(q.dbs)))

\* the rows before the i-th of the product that pass the filters
MatchesBefore(i) ==
    Cardinality({j \in 1..(i - 1) : AllFilters(q.filters, Product(q.dbs)[j]) = "T"})

\* C15: a capped query pulls a row from the nested product only while the
\* rows it has produced are fewer than its cap: once the cap-th matching row
\* is produced no further record is read and no filter is evaluated.
C15_StopsAtCap ==
    q.limit.some => \A i \in 1..Pulled : MatchesBefore(i) < q.limit.n

(* ------------------------------------------------------------------ *)
(* Sort and the projection (SpecQuery)                                 *)
(* ------------------------------------------------------------------ *)
\* on every composite row of the query the filters, the projection and the
\* sort key can be computed
SortInputsValid ==
    \A i \in 1..Len(Product(q.dbs)) :
        /\ AllFilters(q.filters, Product(q.dbs)[i]) # "E"
        /\ Project(q.projections, Product(q.dbs)[i]).ok
        /\ KeyOf(es.params, Product(q.dbs)[i]).ok

\* C17: Sort.execute takes its key from the composite rows of the query and
\* projects after the merge: with distinct aliases, and a sort column that
\* is a column of the query's tables, it raises nothing, whether the
\* projection holds the sort column or not.
C17_SortByAnyColumn ==
    (/\ es.it.kind = "query"
     /\ ~HasDuplicates(Aliases(q.projections))
     /\ SortInputsValid) =>
        qpc # "raised"

(* ------------------------------------------------------------------ *)
(* Groupby.count (SpecQuery)                                           *)
(* ------------------------------------------------------------------ *)
\* the positions in the product of the composite rows the query yields:
\* the rows that pass the filters, as many of them as the query produces
YieldedPositions ==
    {i \in 1..Len(Product(q.dbs)) :
        /\ AllFilters(q.filters, Product(q.dbs)[i]) = "T"
        /\ MatchesBefore(i) < Len(Drain(q, NewGen, <<>>).rows)}

\* the grouping key of the composite row at position i
KeyAt(i) == [c \in 1..Len(grp.columns) |->
                Product(q.dbs)[i][grp.columns[c].dbid][grp.columns[c].name]]

\* the positions at which a grouping key occurs for the first time
FirstSeen == {i \in YieldedPositions : \A j \in YieldedPositions : j < i => KeyAt(j) # KeyAt(i)}

\* the record of the key first seen at i: the values of the grouping columns
\* and the number of yielded rows with that key
ExpectedLine(i) ==
    WriterRow(KeyAt(i) \o <<StrOfNat(Cardinality({j \in YieldedPositions : KeyAt(j) = KeyAt(i)}))>>)

RECURSIVE ExpectedLines(_)
ExpectedLines(S) ==
    IF S = {} THEN <<>>
    ELSE ExpectedLine(CHOOSE i \in S : \A j \in S : i <= j)
         \o ExpectedLines(S \ {CHOOSE i \in S : \A j \in S : i <= j})

\* C18: for grouping columns that are columns of the query's tables, and a
\* query that iterates without an error, Groupby.count writes the header and
\* then one record per distinct grouping key among the rows the query
\* yields, in first-seen order, with the value of every grouping column and
\* the number of rows with that key, whatever the projection of the query.
C18_GroupbyCount ==
    (/\ grp.some
     /\ \A c \in 1..Len(grp.columns) :
           /\ grp.columns[c].dbid \in Range(q.dbs)
           /\ grp.columns[c].name \in Range(Fieldnames(grp.columns[c].dbid))
     /\ Drain(q, NewGen, <<>>).st = "finished") =>
        /\ qpc = "done"
        /\ nrows = Cardinality(FirstSeen)
        /\ stdout = WriterRow(GroupbyFieldnames(grp.columns)) \o ExpectedLines(FirstSeen)

====
